---- MODULE Spec2Model ----
(***************************************************************************)
(* Screening engine of the PFA counseling application: the SRQ-20, SRQ-29  *)
(* and DASS-42 scorers, the severity banding and the referral rules, as    *)
(* they run in the Streamlit Screening page (pages/3_Screening_Tools.py,   *)
(* utils/screening_tools.py) and in the REST scoring endpoint              *)
(* (api/resources/screening_tools.py).                                     *)
(*                                                                         *)
(* Python dicts are functions; a form key f"srq_{i}" is the pair            *)
(* <<"srq", i>> (prefix, number), so that key.startswith("srq_") and       *)
(* int(key.split("_")[1]) are the two projections.  A Python list is a     *)
(* sequence: list index i is sequence position i + 1.  A JSON value of an  *)
(* API request is tagged with its type, [t |-> "bool" | "int", v |-> ...]. *)
(***************************************************************************)
EXTENDS Integers, Sequences, FiniteSets, TLC

VARIABLES
    current_screening_tool, \* st.session_state.current_screening_tool
    form,                   \* the answers held by the widgets of the form
    patients,               \* the patient store: id -> record (or NoPatient)
    screen,                 \* what the Screening page rendered last
    screening_tools,        \* rows of the screening_tools table, by id
    request,                \* the last JSON body sent to the scoring endpoint
    response,               \* the last response of the scoring endpoint
    returned,               \* the value of the last direct call of a function
    files,                  \* the file-based fallback store: id -> record
    db_initialized,         \* st.session_state.db_initialized
    sessions,               \* handlers under way: what each has read so far
    clock                   \* datetime.datetime.now(), in saves

vars == <<current_screening_tool, form, patients, screen, screening_tools,
          request, response, returned, files, db_initialized, sessions, clock>>

(***************************************************************************)
(* Bounds of the model.                                                    *)
(***************************************************************************)
MaxClock == 2

\* the most rows the screening_tools table gets
MaxTools == 4

\* by how many answers a client's list is too short or too long
MaxMiscount == 1

(***************************************************************************)
(* Python helpers.                                                         *)
(***************************************************************************)
NoPatient == [none |-> TRUE]

SrqKey(i) == <<"srq", i>>
DassKey(i) == <<"dass", i>>

StartsWith(key, prefix) == key[1] = prefix
KeyNumber(key) == key[2]

DictGet(d, k, default) == IF k \in DOMAIN d THEN d[k] ELSE default

DictUpdate(d, e) ==
    [k \in (DOMAIN d) \cup (DOMAIN e) |-> IF k \in DOMAIN e THEN e[k] ELSE d[k]]

JBool(b) == [t |-> "bool", v |-> b]
JInt(n) == [t |-> "int", v |-> n]

\* Python truth value of a JSON answer
Truthy(a) == IF a.t = "bool" THEN a.v ELSE a.v # 0

\* isinstance(answer, int): bool is a subclass of int
IsInstanceInt(a) == a.t \in {"int", "bool"}

\* the integer an int-like answer adds to a sum
IntValue(a) == IF a.t = "bool" THEN (IF a.v THEN 1 ELSE 0) ELSE a.v

(***************************************************************************)
(* utils/screening_tools.py                                                *)
(***************************************************************************)
calculate_srq20_score_unfiltered(answers) ==
    Cardinality({key \in DOMAIN answers :
        answers[key] /\ StartsWith(key, "srq")})

calculate_srq20_score(answers) ==
    Cardinality({key \in DOMAIN answers :
        answers[key] /\ StartsWith(key, "srq") /\ KeyNumber(key) <= 20})

calculate_srq29_score(answers) ==
    Cardinality({key \in DOMAIN answers : answers[key]})

get_srq29_subscale_scores_overlap(answers) ==
    [anxiety_depression |-> Cardinality({key \in DOMAIN answers :
        answers[key] /\ StartsWith(key, "srq")
            /\ 1 <= KeyNumber(key) /\ KeyNumber(key) <= 20}),
     psychotic |-> Cardinality({key \in DOMAIN answers :
        answers[key] /\ StartsWith(key, "srq")
            /\ 21 <= KeyNumber(key) /\ KeyNumber(key) <= 25}),
     epileptic |-> IF DictGet(answers, SrqKey(25), FALSE) THEN 1 ELSE 0,
     alcohol |-> Cardinality({key \in DOMAIN answers :
        answers[key] /\ StartsWith(key, "srq")
            /\ 26 <= KeyNumber(key) /\ KeyNumber(key) <= 29})]

get_srq29_subscale_scores(answers) ==
    [anxiety_depression |-> Cardinality({key \in DOMAIN answers :
        answers[key] /\ StartsWith(key, "srq")
            /\ 1 <= KeyNumber(key) /\ KeyNumber(key) <= 20}),
     psychotic |-> Cardinality({key \in DOMAIN answers :
        answers[key] /\ StartsWith(key, "srq")
            /\ 21 <= KeyNumber(key) /\ KeyNumber(key) <= 24}),
     epileptic |-> IF DictGet(answers, SrqKey(25), FALSE) THEN 1 ELSE 0,
     alcohol |-> Cardinality({key \in DOMAIN answers :
        answers[key] /\ StartsWith(key, "srq")
            /\ 26 <= KeyNumber(key) /\ KeyNumber(key) <= 29})]

get_dass42_questions_mislabelled ==
    [i \in 1..42 |-> <<IF i <= 15 THEN "Depression"
                       ELSE IF i <= 28 THEN "Anxiety" ELSE "Stress", i>>]

\* the built-in question bank: 42 (category, text) tuples; the text of
\* item i is represented by its number, as it does not enter any score
get_dass42_questions ==
    [i \in 1..42 |-> <<IF i <= 14 THEN "Depression"
                       ELSE IF i <= 28 THEN "Anxiety" ELSE "Stress", i>>]

depression_indices == 0..13
anxiety_indices_short == 14..26

anxiety_indices == 14..27
stress_indices_short == 28..40

stress_indices == 28..41

RECURSIVE dass42_loop(_, _, _)
dass42_loop(answers, i, acc) ==
    IF i > 42 THEN acc
    ELSE LET score == DictGet(answers, DassKey(i), 0)
             idx == i - 1
         IN dass42_loop(answers, i + 1,
                IF idx \in depression_indices
                    THEN [acc EXCEPT ![1] = @ + score]
                ELSE IF idx \in anxiety_indices
                    THEN [acc EXCEPT ![2] = @ + score]
                ELSE IF idx \in stress_indices
                    THEN [acc EXCEPT ![3] = @ + score]
                ELSE acc)

\* returns <<depression_score, anxiety_score, stress_score>>
calculate_dass42_scores(answers) == dass42_loop(answers, 1, <<0, 0, 0>>)

(***************************************************************************)
(* pages/9_Screening_Tools_Management.py: the built-in tools as stored in  *)
(* the screening_tools table                                               *)
(***************************************************************************)
Srq20ToolName == "Self-Reporting Questionnaire (SRQ-20)"
Srq29ToolName == "Self-Reporting Questionnaire (SRQ-29 WHO)"
Dass42ToolName == "Depression Anxiety Stress Scale (DASS-42)"

import_built_in_tools ==
    <<[name |-> Srq20ToolName,
       questions |-> [i \in 1..20 |-> [question |-> i, type |-> "binary"]]],
      [name |-> Srq29ToolName,
       questions |-> [i \in 1..29 |-> [question |-> i, type |-> "binary"]]],
      [name |-> Dass42ToolName,
       questions |-> [i \in 1..42 |->
           [question |-> get_dass42_questions[i][2],
            category |-> get_dass42_questions[i][1],
            type |-> "scale"]]]>>

\* a tool entered on the "Add New Screening Tool" form
CustomToolName == "PHQ-9"

add_screening_tool(name, questions_text) ==
    [name |-> name,
     questions |-> [i \in 1..Len(questions_text) |->
                       [question |-> questions_text[i], type |-> "binary"]]]

\* save_screening_tool(tool_data): the INSERT branch
save_screening_tool(tool_data) == Append(screening_tools, tool_data)

\* the "Edit Screening Tool" form: the stored questions as the lines of
\* the Questions text area, f"{q_text} *type:{q_type}", each line the
\* sequence of its parts: a text, the marker, a text
edit_questions_text(questions) ==
    [i \in 1..Len(questions) |->
        <<[text |-> DictGet(questions[i], "question", "")],
          [marker |-> "*type:"],
          [text |-> DictGet(questions[i], "type", "binary")]>>]

\* q_text.split('*type:') of a line
SplitType(line) ==
    LET at == {j \in 1..Len(line) : "marker" \in DOMAIN line[j]}
    IN IF at = {} THEN <<line>>
       ELSE LET j == CHOOSE x \in at : \A y \in at : x <= y
            IN <<SubSeq(line, 1, j - 1), SubSeq(line, j + 1, Len(line))>>

\* "Update Screening Tool": the questions parsed from the text area
edit_parse_questions(questions_text) ==
    [i \in 1..Len(questions_text) |->
        LET q_parts == SplitType(questions_text[i])
            question == q_parts[1][1].text
            q_type == IF Len(q_parts) > 1 THEN q_parts[2][1].text ELSE "binary"
        IN [question |-> question, type |-> q_type]]

\* save_screening_tool(tool_data, tool_id): the UPDATE branch
save_screening_tool_update(tool_data, tool_id) ==
    [screening_tools EXCEPT ![tool_id] = tool_data]

(***************************************************************************)
(* str.lower() and the substring test `needle in hay`, on the strings the  *)
(* model uses                                                              *)
(***************************************************************************)
Lower(s) ==
    CASE s = Srq20ToolName -> "self-reporting questionnaire (srq-20)"
      [] s = Srq29ToolName -> "self-reporting questionnaire (srq-29 who)"
      [] s = Dass42ToolName -> "depression anxiety stress scale (dass-42)"
      [] s = "Depression" -> "depression"
      [] s = "Anxiety" -> "anxiety"
      [] s = "Stress" -> "stress"
      [] s = CustomToolName -> "phq-9"
      [] OTHER -> s

Contains(hay, needle) ==
    <<hay, needle>> \in
        {<<"self-reporting questionnaire (srq-20)", "srq-20">>,
         <<"self-reporting questionnaire (srq-29 who)", "srq-29">>,
         <<"depression anxiety stress scale (dass-42)", "dass">>,
         <<"depression anxiety stress scale (dass-42)", "depression">>,
         <<"depression anxiety stress scale (dass-42)", "anxiety">>,
         <<"depression anxiety stress scale (dass-42)", "stress">>,
         <<"depression", "depression">>,
         <<"anxiety", "anxiety">>,
         <<"stress", "stress">>}

(***************************************************************************)
(* api/resources/screening_tools.py: scoring and interpretation helpers    *)
(***************************************************************************)
get_srq20_interpretation_lt(score) ==
    IF score < 4 THEN "No significant mental distress"
    ELSE IF score < 7 THEN "Mild mental distress"
    ELSE IF score < 10 THEN "Moderate mental distress"
    ELSE "Severe mental distress"

get_srq20_interpretation(score) ==
    IF score <= 4 THEN "No significant mental distress"
    ELSE IF score <= 7 THEN "Mild mental distress"
    ELSE IF score <= 10 THEN "Moderate mental distress"
    ELSE "Severe mental distress"

calculate_srq29_subscales_shifted(answers) ==
    IF Len(answers) < 29
    THEN [error |-> "Insufficient answers for SRQ-29"]
    ELSE [anxiety_depression |-> Cardinality({i \in 0..(Len(answers) - 1) :
              Truthy(answers[i + 1]) /\ i <= 20}),
          psychotic |-> Cardinality({i \in 0..(Len(answers) - 1) :
              Truthy(answers[i + 1]) /\ 20 <= i /\ i <= 23}),
          epilepsy |-> IF Truthy(answers[24 + 1]) THEN 1 ELSE 0,
          alcohol |-> Cardinality({i \in 0..(Len(answers) - 1) :
              Truthy(answers[i + 1]) /\ i >= 25})]

\* answers is a list; list index i is position i + 1
calculate_srq29_subscales(answers) ==
    IF Len(answers) < 29
    THEN [error |-> "Insufficient answers for SRQ-29"]
    ELSE [anxiety_depression |-> Cardinality({i \in 0..(Len(answers) - 1) :
              Truthy(answers[i + 1]) /\ i < 20}),
          psychotic |-> Cardinality({i \in 0..(Len(answers) - 1) :
              Truthy(answers[i + 1]) /\ 20 <= i /\ i <= 23}),
          epilepsy |-> IF Truthy(answers[24 + 1]) THEN 1 ELSE 0,
          alcohol |-> Cardinality({i \in 0..(Len(answers) - 1) :
              Truthy(answers[i + 1]) /\ i >= 25})]

get_srq29_interpretation_epileptic(subscale_scores) ==
    LET anxiety_depression == DictGet(subscale_scores, "anxiety_depression", 0)
        psychotic == DictGet(subscale_scores, "psychotic", 0)
        epilepsy == DictGet(subscale_scores, "epileptic", 0)
        alcohol == DictGet(subscale_scores, "alcohol", 0)
    IN [anxiety_depression |-> get_srq20_interpretation(anxiety_depression),
        psychotic |->
            IF psychotic = 0 THEN "No psychotic symptoms indicated"
            ELSE "Psychotic symptoms indicated - requires specialist assessment",
        epilepsy |->
            IF epilepsy = 0 THEN "No epileptic seizures indicated"
            ELSE "Epileptic seizures indicated - requires medical assessment",
        alcohol |->
            IF alcohol = 0 THEN "No problematic alcohol use indicated"
            ELSE IF alcohol = 1 THEN "Possible problematic alcohol use"
            ELSE "Problematic alcohol use indicated - requires specialist assessment"]

get_srq29_interpretation(subscale_scores) ==
    LET anxiety_depression == DictGet(subscale_scores, "anxiety_depression", 0)
        psychotic == DictGet(subscale_scores, "psychotic", 0)
        epilepsy == DictGet(subscale_scores, "epilepsy", 0)
        alcohol == DictGet(subscale_scores, "alcohol", 0)
    IN [anxiety_depression |->
            IF anxiety_depression <= 4 THEN "No significant mental distress"
            ELSE IF anxiety_depression <= 7 THEN "Mild mental distress"
            ELSE IF anxiety_depression <= 10 THEN "Moderate mental distress"
            ELSE "Severe mental distress",
        psychotic |->
            IF psychotic = 0 THEN "No psychotic symptoms indicated"
            ELSE "Psychotic symptoms indicated - requires specialist assessment",
        epilepsy |->
            IF epilepsy = 0 THEN "No epileptic seizures indicated"
            ELSE "Epileptic seizures indicated - requires medical assessment",
        alcohol |->
            IF alcohol = 0 THEN "No problematic alcohol use indicated"
            ELSE IF alcohol = 1 THEN "Possible problematic alcohol use"
            ELSE "Problematic alcohol use indicated - requires specialist assessment"]

Min(a, b) == IF a <= b THEN a ELSE b

\* the loop over zip(answers, questions), from pair i on
RECURSIVE dass42_zip_loop(_, _, _, _)
dass42_zip_loop(answers, questions, i, acc) ==
    IF i > Min(Len(answers), Len(questions)) THEN acc
    ELSE LET answer == answers[i]
             question == questions[i]
             category == Lower(DictGet(question, "category", ""))
             score == IF IsInstanceInt(answer) THEN IntValue(answer) ELSE 0
         IN dass42_zip_loop(answers, questions, i + 1,
                IF Contains(category, "depression")
                    THEN [acc EXCEPT !.depression = @ + score]
                ELSE IF Contains(category, "anxiety")
                    THEN [acc EXCEPT !.anxiety = @ + score]
                ELSE IF Contains(category, "stress")
                    THEN [acc EXCEPT !.stress = @ + score]
                ELSE acc)

calculate_dass42_subscales(answers, questions) ==
    dass42_zip_loop(answers, questions, 1,
                    [depression |-> 0, anxiety |-> 0, stress |-> 0])

get_dass42_interpretation(subscale_scores) ==
    LET depression == DictGet(subscale_scores, "depression", 0)
        anxiety == DictGet(subscale_scores, "anxiety", 0)
        stress == DictGet(subscale_scores, "stress", 0)
    IN [depression |->
            IF depression <= 9 THEN "Normal"
            ELSE IF depression <= 13 THEN "Mild"
            ELSE IF depression <= 20 THEN "Moderate"
            ELSE IF depression <= 27 THEN "Severe"
            ELSE "Extremely Severe",
        anxiety |->
            IF anxiety <= 7 THEN "Normal"
            ELSE IF anxiety <= 9 THEN "Mild"
            ELSE IF anxiety <= 14 THEN "Moderate"
            ELSE IF anxiety <= 19 THEN "Severe"
            ELSE "Extremely Severe",
        stress |->
            IF stress <= 14 THEN "Normal"
            ELSE IF stress <= 18 THEN "Mild"
            ELSE IF stress <= 25 THEN "Moderate"
            ELSE IF stress <= 33 THEN "Severe"
            ELSE "Extremely Severe"]

\* ScreeningResultResource.post, after authentication, with the database
\* reachable: data is the JSON body [tool_id, answers]
success_response(data) ==
    [status |-> "success", message |-> "Success", data |-> data,
     status_code |-> 200]

error_response(message, status_code) ==
    [status |-> "error", message |-> message, status_code |-> status_code]

post(data) ==
    IF data.tool_id = 0 \/ Len(data.answers) = 0
    THEN error_response("Tool ID and answers are required", 400)
    ELSE IF data.tool_id \notin DOMAIN screening_tools
    THEN error_response("Screening tool not found", 404)
    ELSE
      LET tool_dict == screening_tools[data.tool_id]
          questions == tool_dict.questions
          tool_name == Lower(tool_dict.name)
          answers == data.answers
          total_score == Cardinality({i \in 1..Len(answers) : Truthy(answers[i])})
          result == [tool_id |-> data.tool_id, tool_name |-> tool_dict.name,
                     total_score |-> total_score]
      IN success_response(
           IF Contains(tool_name, "srq-20") \/ Contains(tool_name, "srq20")
           THEN DictUpdate(result,
                    [interpretation |-> get_srq20_interpretation(total_score)])
           ELSE IF Contains(tool_name, "srq-29") \/ Contains(tool_name, "srq29")
           THEN LET subscale_scores == calculate_srq29_subscales(answers)
                IN DictUpdate(result,
                    [subscale_scores |-> subscale_scores,
                     interpretations |-> get_srq29_interpretation(subscale_scores)])
           ELSE IF Contains(tool_name, "dass")
           THEN LET subscale_scores == calculate_dass42_subscales(answers, questions)
                IN DictUpdate(result,
                    [subscale_scores |-> subscale_scores,
                     interpretations |-> get_dass42_interpretation(subscale_scores)])
           ELSE result)

(***************************************************************************)
(* utils/database.py: the patient store                                    *)
(***************************************************************************)
PatientIds == {"p1"}

IsPatient(r) == "none" \notin DOMAIN r

get_patient(patient_id) ==
    IF patient_id \in DOMAIN patients THEN patients[patient_id] ELSE NoPatient

save_patient(patient_id, patient_data) ==
    [patients EXCEPT ![patient_id] = patient_data]

\* st.session_state.db_initialized: the outcome of initialize_database()
\* when the session first touched the store
use_database == db_initialized

\* the file branch of save_patient: the files after the save
save_patient_to_file(patient_id, patient_data) ==
    [files EXCEPT ![patient_id] = patient_data]

\* get_patient with the database reachable (get_db_connection returns a
\* connection and the query succeeds) or not: a row that is missing is
\* answered with None, the files are read only when the database failed
get_patient_from_storage(patient_id, db_up) ==
    IF use_database /\ db_up
    THEN get_patient(patient_id)
    ELSE IF patient_id \in DOMAIN files THEN files[patient_id] ELSE NoPatient

get_patients == {patients[k] : k \in {j \in DOMAIN patients : IsPatient(patients[j])}}

(***************************************************************************)
(* pages/3_Screening_Tools.py                                              *)
(***************************************************************************)
update_patient_screening_data_sticky(patient_id, screening_data) ==
    LET existing_data == get_patient(patient_id)
    IN IF IsPatient(existing_data)
       THEN save_patient(patient_id,
                DictUpdate(DictUpdate(existing_data, screening_data),
                    [last_updated |-> clock,
                     screening_complete |-> TRUE,
                     assessment_step |-> "screening",
                     referral_needed |->
                        \/ screening_data.referral_needed
                        \/ DictGet(existing_data, "referral_needed", FALSE)]))
       ELSE patients

\* the patient store after update_patient_screening_data(screening_data)
\* for st.session_state.current_patient_id = patient_id
update_patient_screening_data(patient_id, screening_data) ==
    LET existing_data == get_patient(patient_id)
    IN IF IsPatient(existing_data)
       THEN save_patient(patient_id,
                DictUpdate(DictUpdate(existing_data, screening_data),
                    [last_updated |-> clock,
                     screening_complete |-> TRUE,
                     assessment_step |-> "screening"]))
       ELSE patients

\* the patients the sidebar offers
listen_completed_patients ==
    {p \in get_patients : DictGet(p, "listen_complete", FALSE)}

srq20_inline_score_accumulated(srq_answers) ==
    Cardinality({key \in DOMAIN srq_answers : srq_answers[key]})
        + Cardinality({p \in get_patients : DictGet(p, "srq20_complete", FALSE)})

\* SRQ-20 branch
srq20_inline_score(srq_answers) ==
    Cardinality({key \in DOMAIN srq_answers : srq_answers[key]})

srq20_referral_needed_strict(score) == score > 8

srq20_referral_needed(score) == score >= 8

srq20_message(score) ==
    IF score >= 11 THEN "Severe mental distress indicated"
    ELSE IF score >= 8 THEN "Moderate mental distress indicated"
    ELSE IF score >= 5 THEN "Mild mental distress indicated"
    ELSE "No significant mental distress indicated"

srq29_referral_needed_subscale(total_score, subscale_scores) ==
    \/ subscale_scores.anxiety_depression >= 8
    \/ subscale_scores.psychotic >= 1
    \/ subscale_scores.epileptic >= 1
    \/ subscale_scores.alcohol >= 2

srq29_referral_needed_low(total_score, subscale_scores) ==
    \/ total_score >= 8
    \/ subscale_scores.psychotic >= 1
    \/ subscale_scores.epileptic >= 1
    \/ subscale_scores.alcohol >= 2

\* SRQ-29 branch: the flag put into screening_data
srq29_referral_needed(total_score, subscale_scores) ==
    \/ total_score >= 10
    \/ subscale_scores.psychotic >= 1
    \/ subscale_scores.epileptic >= 1
    \/ subscale_scores.alcohol >= 2

srq29_displayed_referral_needed_high(subscale_scores) ==
    \/ subscale_scores.anxiety_depression >= 10
    \/ subscale_scores.psychotic >= 1
    \/ subscale_scores.epileptic = 1
    \/ subscale_scores.alcohol >= 2

\* SRQ-29 branch: the decision behind the rendered warning
srq29_displayed_referral_needed(subscale_scores) ==
    \/ subscale_scores.anxiety_depression >= 8
    \/ subscale_scores.psychotic >= 1
    \/ subscale_scores.epileptic = 1
    \/ subscale_scores.alcohol >= 2

srq29_guidance_alcohol_any(subscale_scores) ==
    IF srq29_displayed_referral_needed(subscale_scores)
    THEN {g \in {"Anxiety & Depression", "Psychotic Symptoms",
                 "Epileptic Seizures", "Alcohol Issues"} :
            \/ g = "Anxiety & Depression" /\ subscale_scores.anxiety_depression >= 8
            \/ g = "Psychotic Symptoms" /\ subscale_scores.psychotic >= 1
            \/ g = "Epileptic Seizures" /\ subscale_scores.epileptic = 1
            \/ g = "Alcohol Issues" /\ subscale_scores.alcohol >= 1}
    ELSE {}

\* SRQ-29 branch: the guidance lines under the warning
srq29_guidance(subscale_scores) ==
    IF srq29_displayed_referral_needed(subscale_scores)
    THEN {g \in {"Anxiety & Depression", "Psychotic Symptoms",
                 "Epileptic Seizures", "Alcohol Issues"} :
            \/ g = "Anxiety & Depression" /\ subscale_scores.anxiety_depression >= 8
            \/ g = "Psychotic Symptoms" /\ subscale_scores.psychotic >= 1
            \/ g = "Epileptic Seizures" /\ subscale_scores.epileptic = 1
            \/ g = "Alcohol Issues" /\ subscale_scores.alcohol >= 2}
    ELSE {}

depression_severity_gt(depression_score) ==
    IF depression_score > 28 THEN "Extremely Severe"
    ELSE IF depression_score > 21 THEN "Severe"
    ELSE IF depression_score > 14 THEN "Moderate"
    ELSE IF depression_score > 10 THEN "Mild"
    ELSE "Normal"

\* DASS-42 branch: the three severity chains
depression_severity(depression_score) ==
    IF depression_score >= 28 THEN "Extremely Severe"
    ELSE IF depression_score >= 21 THEN "Severe"
    ELSE IF depression_score >= 14 THEN "Moderate"
    ELSE IF depression_score >= 10 THEN "Mild"
    ELSE "Normal"

anxiety_severity_as_depression(anxiety_score) ==
    depression_severity(anxiety_score)

anxiety_severity(anxiety_score) ==
    IF anxiety_score >= 20 THEN "Extremely Severe"
    ELSE IF anxiety_score >= 15 THEN "Severe"
    ELSE IF anxiety_score >= 10 THEN "Moderate"
    ELSE IF anxiety_score >= 8 THEN "Mild"
    ELSE "Normal"

stress_severity(stress_score) ==
    IF stress_score >= 34 THEN "Extremely Severe"
    ELSE IF stress_score >= 26 THEN "Severe"
    ELSE IF stress_score >= 19 THEN "Moderate"
    ELSE IF stress_score >= 15 THEN "Mild"
    ELSE "Normal"

dass42_referral_needed_severe(severities) ==
    \E i \in DOMAIN severities :
        severities[i] \in {"Severe", "Extremely Severe"}

dass42_referral_needed(severities) ==
    \E i \in DOMAIN severities :
        severities[i] \in {"Moderate", "Severe", "Extremely Severe"}

(***************************************************************************)
(* pages/1_Patient_Assessment.py, pages/2_Listening_Module.py and          *)
(* pages/4_Referral_System.py: the saves of the Look, Listen and Link      *)
(* pages.  Each returns the patient store after the save.                  *)
(***************************************************************************)
\* st.session_state.current_patient_id of the selection "New Patient"
NewPatient == "New Patient"

\* the page's list comprehension reads p['name'] and p['id'] of every
\* patient it offers: a record without them ends the run with a KeyError
Listable(ps) == \A p \in ps : {"name", "id"} \subseteq DOMAIN p

\* patient_data of the Look form on submit
look_patient_data(name, appearance) ==
    [name |-> name, appearance |-> appearance,
     assessment_step |-> "look", look_complete |-> TRUE]

create_or_update_patient(current_patient_id, uuid4, patient_data) ==
    IF current_patient_id = NewPatient
    THEN save_patient(uuid4,
            DictUpdate(patient_data,
                [id |-> uuid4, created_at |-> clock, last_updated |-> clock]))
    ELSE LET existing_data == get_patient(current_patient_id)
         IN save_patient(current_patient_id,
                DictUpdate(
                    IF IsPatient(existing_data)
                    THEN DictUpdate(patient_data,
                            [created_at |->
                                DictGet(existing_data, "created_at", "None")])
                    ELSE patient_data,
                    [last_updated |-> clock]))

\* the patients the Listening page offers
look_completed_patients ==
    {p \in get_patients : DictGet(p, "look_complete", FALSE)}

\* listening_data of the Listening form on submit
listening_data(chief_complaint, suicide_risk, harm_risk) ==
    [chief_complaint |-> chief_complaint,
     suicide_risk |-> suicide_risk,
     harm_risk |-> harm_risk,
     high_risk |->
        \/ suicide_risk \in {"Active ideation with plan", "Recent attempt"}
        \/ harm_risk \in {"Moderate", "High"}]

update_patient_listening_data(patient_id, patient_data) ==
    LET existing_data == get_patient(patient_id)
    IN IF IsPatient(existing_data)
       THEN save_patient(patient_id,
                DictUpdate(DictUpdate(existing_data, patient_data),
                    [last_updated |-> clock,
                     listen_complete |-> TRUE,
                     assessment_step |-> "listen"]))
       ELSE patients

screening_completed_patients_any == get_patients

\* the patients the Referral page offers
screening_completed_patients ==
    {p \in get_patients : DictGet(p, "screening_complete", FALSE)}

\* referral_data of the Referral form on submit
referral_form_data(referral_needed, referral_reason) ==
    IF referral_needed
    THEN [referral_needed |-> referral_needed,
          follow_up_plan |-> "", referral_reason |-> referral_reason]
    ELSE [referral_needed |-> referral_needed, follow_up_plan |-> ""]

update_patient_referral_data(patient_id, referral_data) ==
    LET existing_data == get_patient(patient_id)
    IN IF IsPatient(existing_data)
       THEN save_patient(patient_id,
                DictUpdate(DictUpdate(existing_data, referral_data),
                    [last_updated |-> clock,
                     referral_complete |-> TRUE,
                     assessment_complete |-> TRUE,
                     assessment_step |-> "complete"]))
       ELSE patients

(***************************************************************************)
(* pages/4_Referral_System.py and pages/5_Reports.py: the bands the        *)
(* Assessment Summary and the patient report render for a stored total     *)
(***************************************************************************)
referral_srq20_interpretation(srq20_score) ==
    IF srq20_score <= 4 THEN "No significant mental distress"
    ELSE IF srq20_score <= 7 THEN "Mild mental distress"
    ELSE IF srq20_score <= 10 THEN "Moderate mental distress"
    ELSE "Severe mental distress"

referral_depression_label(depression) ==
    IF depression <= 9 THEN "Normal"
    ELSE IF depression <= 13 THEN "Mild"
    ELSE IF depression <= 20 THEN "Moderate"
    ELSE IF depression <= 27 THEN "Severe"
    ELSE "Extremely Severe"

referral_anxiety_label(anxiety) ==
    IF anxiety <= 7 THEN "Normal"
    ELSE IF anxiety <= 9 THEN "Mild"
    ELSE IF anxiety <= 14 THEN "Moderate"
    ELSE IF anxiety <= 19 THEN "Severe"
    ELSE "Extremely Severe"

referral_stress_label(stress) ==
    IF stress <= 14 THEN "Normal"
    ELSE IF stress <= 18 THEN "Mild"
    ELSE IF stress <= 25 THEN "Moderate"
    ELSE IF stress <= 33 THEN "Severe"
    ELSE "Extremely Severe"

reports_srq_interpretation_late(srq_score) ==
    IF srq_score >= 12 THEN "Severe mental distress indicated"
    ELSE IF srq_score >= 8 THEN "Moderate mental distress indicated"
    ELSE IF srq_score >= 5 THEN "Mild mental distress indicated"
    ELSE "No significant mental distress indicated"

reports_srq_interpretation(srq_score) ==
    IF srq_score >= 11 THEN "Severe mental distress indicated"
    ELSE IF srq_score >= 8 THEN "Moderate mental distress indicated"
    ELSE IF srq_score >= 5 THEN "Mild mental distress indicated"
    ELSE "No significant mental distress indicated"

(***************************************************************************)
(* The answer sets the forms are filled with.  An SRQ answer set is given  *)
(* by its set of endorsed items; per subscale the endorsed items are a run *)
(* from the first or up to the last item of the subscale, so that every    *)
(* subscale total and both ends of every index range occur.  A DASS-42     *)
(* answer set is given by its three subscale totals: a subscale with total *)
(* t has t \div 3 items at 3 and one item at t % 3, from its first item on *)
(* ("front") or from its last item back ("back").                          *)
(***************************************************************************)
EndShapes(lo, hi) ==
    {lo..k : k \in (lo - 1)..hi} \cup {k..hi : k \in lo..hi}

Srq20Endorsed == {a..b : a \in 1..20, b \in 0..20}

Srq29Endorsed ==
    {A \cup P \cup E \cup C :
        A \in EndShapes(1, 20), P \in EndShapes(21, 24),
        E \in {{}, {25}}, C \in EndShapes(26, 29)}
    \cup {{k} : k \in 1..29}

SrqForm(n, endorsed) ==
    [key \in {SrqKey(i) : i \in 1..n} |-> KeyNumber(key) \in endorsed]

DassKeyTotals == {0, 5, 13, 18, 42}

DassTotals ==
    {<<t, k1, k2>> : t \in 0..42, k1 \in DassKeyTotals, k2 \in DassKeyTotals}
    \cup {<<k1, t, k2>> : t \in 0..42, k1 \in DassKeyTotals, k2 \in DassKeyTotals}
    \cup {<<k1, k2, t>> : t \in 0..42, k1 \in DassKeyTotals, k2 \in DassKeyTotals}

\* the answer to item j (1..14) of a subscale filled to total t
DassBlockValue(t, side, j) ==
    LET pos == IF side = "front" THEN j ELSE 15 - j
    IN IF pos <= t \div 3 THEN 3
       ELSE IF pos = (t \div 3) + 1 THEN t % 3
       ELSE 0

DassForm(totals, side) ==
    [key \in {DassKey(i) : i \in 1..42} |->
        DassBlockValue(totals[((KeyNumber(key) - 1) \div 14) + 1], side,
                       ((KeyNumber(key) - 1) % 14) + 1)]

Forms(tool) ==
    CASE tool = "SRQ-20" -> {SrqForm(20, e) : e \in Srq20Endorsed}
      [] tool = "SRQ-29 WHO" -> {SrqForm(29, e) : e \in Srq29Endorsed}
      [] tool = "DASS-42" ->
            {DassForm(t, side) : t \in DassTotals, side \in {"front", "back"}}

\* the answers of the form as the JSON list an API client sends
AnswerList(tool, answers) ==
    CASE tool = "SRQ-20" -> [i \in 1..20 |-> JBool(answers[SrqKey(i)])]
      [] tool = "SRQ-29 WHO" -> [i \in 1..29 |-> JBool(answers[SrqKey(i)])]
      [] tool = "DASS-42" -> [i \in 1..42 |-> JInt(answers[DassKey(i)])]

ToolId(tool) ==
    CASE tool = "SRQ-20" -> 1
      [] tool = "SRQ-29 WHO" -> 2
      [] tool = "DASS-42" -> 3

\* the answer sets of the API clients: SRQ items endorsed from the first on
\* or up to the last, DASS-42 subscales filled to the key totals
ClientForms(tool) ==
    CASE tool = "SRQ-20" -> {SrqForm(20, e) : e \in EndShapes(1, 20)}
      [] tool = "SRQ-29 WHO" -> {SrqForm(29, e) : e \in EndShapes(1, 29)}
      [] tool = "DASS-42" ->
            {DassForm(<<d, a, s>>, "front") :
                d \in DassKeyTotals, a \in DassKeyTotals, s \in DassKeyTotals}

\* a client's list of n answers: the first n of the list, or the list with
\* its last answer sent again
ClientAnswers(answers, n) ==
    IF n <= Len(answers) THEN SubSeq(answers, 1, n)
    ELSE answers \o [i \in 1..(n - Len(answers)) |-> answers[Len(answers)]]

\* the answer sets the scorers of utils are called with directly
ScorerForms(tool) ==
    CASE tool = "SRQ-20" -> {SrqForm(20, e) : e \in Srq20Endorsed}
      [] tool = "SRQ-29 WHO" ->
            {SrqForm(29, A \cup H) :
                A \in EndShapes(1, 20), H \in EndShapes(21, 29)}

\* the mapping with item i toggled (i = 0: the mapping itself)
Toggle(answers, i) ==
    IF i = 0 THEN answers ELSE [answers EXCEPT ![SrqKey(i)] = ~@]

(***************************************************************************)
(* The state machine                                                       *)
(***************************************************************************)
\* a patient after the Look and the Listen page
ListenedPatient(id) ==
    [id |-> id, name |-> "patient", look_complete |-> TRUE,
     listen_complete |-> TRUE, assessment_step |-> "listen",
     created_at |-> 0, last_updated |-> 0]

Init ==
    /\ current_screening_tool \in {"SRQ-20", "SRQ-29 WHO", "DASS-42"}
    /\ form \in Forms(current_screening_tool)
    /\ patients = [id \in PatientIds |-> ListenedPatient(id)]
    /\ screen = [tool |-> "none"]
    /\ screening_tools = import_built_in_tools
    /\ request = [sent |-> FALSE]
    /\ response = [status |-> "none"]
    /\ returned = [fn |-> "none"]
    /\ files = [id \in PatientIds |-> NoPatient]
    /\ db_initialized = TRUE
    /\ sessions = <<>>
    /\ clock = 0

\* "Calculate SRQ-20 Score"
SubmitSRQ20 ==
    /\ current_screening_tool = "SRQ-20"
    /\ clock < MaxClock
    /\ \E p \in listen_completed_patients :
       \E score \in {srq20_inline_score(form)} :
        LET patient_id == p["id"]
            srq_answers == form
            screening_data ==
                [srq20_score |-> score,
                 srq_answers |-> srq_answers,
                 srq20_complete |-> TRUE,
                 referral_needed |-> srq20_referral_needed(score)]
        IN /\ patients' = update_patient_screening_data(patient_id, screening_data)
           /\ screen' = [tool |-> "SRQ-20", patient_id |-> patient_id,
                         score |-> score, message |-> srq20_message(score),
                         referral_button |-> score >= 8]
    /\ clock' = clock + 1
    /\ UNCHANGED <<current_screening_tool, form, screening_tools, request,
                   response, returned,
                   files, db_initialized, sessions>>

\* "Calculate SRQ-29 Score"
SubmitSRQ29 ==
    /\ current_screening_tool = "SRQ-29 WHO"
    /\ clock < MaxClock
    /\ \E p \in listen_completed_patients :
       \E total_score \in {calculate_srq29_score(form)} :
       \E subscale_scores \in {get_srq29_subscale_scores(form)} :
        LET patient_id == p["id"]
            srq_answers == form
            screening_data ==
                [srq29_score |-> total_score,
                 srq29_anxiety_depression |-> subscale_scores.anxiety_depression,
                 srq29_psychotic |-> subscale_scores.psychotic,
                 srq29_epileptic |-> subscale_scores.epileptic,
                 srq29_alcohol |-> subscale_scores.alcohol,
                 srq_answers |-> srq_answers,
                 srq29_complete |-> TRUE,
                 referral_needed |->
                     srq29_referral_needed(total_score, subscale_scores)]
        IN /\ patients' = update_patient_screening_data(patient_id, screening_data)
           /\ screen' = [tool |-> "SRQ-29 WHO", patient_id |-> patient_id,
                         total_score |-> total_score,
                         subscale_scores |-> subscale_scores,
                         referral_needed |->
                             srq29_displayed_referral_needed(subscale_scores),
                         guidance |-> srq29_guidance(subscale_scores)]
    /\ clock' = clock + 1
    /\ UNCHANGED <<current_screening_tool, form, screening_tools, request,
                   response, returned,
                   files, db_initialized, sessions>>

\* "Calculate DASS-42 Scores"
SubmitDASS42 ==
    /\ current_screening_tool = "DASS-42"
    /\ clock < MaxClock
    /\ \E p \in listen_completed_patients :
       \E scores \in {calculate_dass42_scores(form)} :
       \E severities \in {<<depression_severity(scores[1]),
                            anxiety_severity(scores[2]),
                            stress_severity(scores[3])>>} :
        LET patient_id == p["id"]
            dass_answers == form
            depression_score == scores[1]
            anxiety_score == scores[2]
            stress_score == scores[3]
            referral_needed == dass42_referral_needed(severities)
            screening_data ==
                [dass_depression_score |-> depression_score,
                 dass_anxiety_score |-> anxiety_score,
                 dass_stress_score |-> stress_score,
                 dass_depression_severity |-> severities[1],
                 dass_anxiety_severity |-> severities[2],
                 dass_stress_severity |-> severities[3],
                 dass_answers |-> dass_answers,
                 dass_complete |-> TRUE,
                 referral_needed |-> referral_needed]
        IN /\ patients' = update_patient_screening_data(patient_id, screening_data)
           /\ screen' = [tool |-> "DASS-42", patient_id |-> patient_id,
                         scores |-> scores, severities |-> severities,
                         referral_needed |-> referral_needed]
    /\ clock' = clock + 1
    /\ UNCHANGED <<current_screening_tool, form, screening_tools, request,
                   response, returned,
                   files, db_initialized, sessions>>

\* POST of the form's answers to the scoring endpoint
ApiPost ==
    /\ \E data \in {[sent |-> TRUE,
                      tool_id |-> ToolId(current_screening_tool),
                      answers |-> AnswerList(current_screening_tool, form)]} :
        /\ request' = data
        /\ response' = post(data)
    /\ UNCHANGED <<current_screening_tool, form, patients, screen,
                   screening_tools, returned, clock,
                   files, db_initialized, sessions>>

Next == SubmitSRQ20 \/ SubmitSRQ29 \/ SubmitDASS42 \/ ApiPost

Spec == Init /\ [][Next]_vars

(***************************************************************************)
(* The scoring endpoint under any client: the table may hold a tool added  *)
(* on the management page, and a request names any tool id and carries a   *)
(* list that may be shorter or longer than the tool's item count.          *)
(***************************************************************************)
ApiInit ==
    /\ current_screening_tool \in {"SRQ-20", "SRQ-29 WHO", "DASS-42"}
    /\ form \in ClientForms(current_screening_tool)
    /\ patients = [id \in PatientIds |-> ListenedPatient(id)]
    /\ screen = [tool |-> "none"]
    /\ screening_tools = import_built_in_tools
    /\ request = [sent |-> FALSE]
    /\ response = [status |-> "none"]
    /\ returned = [fn |-> "none"]
    /\ files = [id \in PatientIds |-> NoPatient]
    /\ db_initialized = TRUE
    /\ sessions = <<>>
    /\ clock = 0

\* "Add Screening Tool"
AddScreeningTool ==
    /\ Len(screening_tools) < MaxTools
    /\ \E name \in {CustomToolName} :
       \E questions_text \in {[i \in 1..9 |-> i]} :
        screening_tools' =
            save_screening_tool(add_screening_tool(name, questions_text))
    /\ UNCHANGED <<current_screening_tool, form, patients, screen, request,
                   response, returned, clock,
                   files, db_initialized, sessions>>

\* POST of a client's request to the scoring endpoint
ApiPostRaw ==
    /\ \E tool_id \in 1..(Len(screening_tools) + 1) :
       \E miscount \in (0 - MaxMiscount)..MaxMiscount :
       \E full \in {AnswerList(current_screening_tool, form)} :
       \E data \in {[sent |-> TRUE, tool_id |-> tool_id,
                      answers |-> ClientAnswers(full, Len(full) + miscount)]} :
        /\ request' = data
        /\ response' = post(data)
    /\ UNCHANGED <<current_screening_tool, form, patients, screen,
                   screening_tools, returned, clock,
                   files, db_initialized, sessions>>

ApiNext == AddScreeningTool \/ ApiPostRaw

ApiSpec == ApiInit /\ [][ApiNext]_vars

(***************************************************************************)
(* Direct calls of calculate_srq20_score, next to the Screening page: on   *)
(* the form's mapping and on the mapping with one of items 21..29 toggled. *)
(***************************************************************************)
ScorerInit ==
    /\ current_screening_tool \in {"SRQ-20", "SRQ-29 WHO"}
    /\ form \in ScorerForms(current_screening_tool)
    /\ patients = [id \in PatientIds |-> ListenedPatient(id)]
    /\ screen = [tool |-> "none"]
    /\ screening_tools = import_built_in_tools
    /\ request = [sent |-> FALSE]
    /\ response = [status |-> "none"]
    /\ returned = [fn |-> "none"]
    /\ files = [id \in PatientIds |-> NoPatient]
    /\ db_initialized = TRUE
    /\ sessions = <<>>
    /\ clock = 0

CallCalculateSrq20Score ==
    /\ \E toggled \in {i \in {0} \cup (21..29) :
                            i = 0 \/ SrqKey(i) \in DOMAIN form} :
       \E answers \in {Toggle(form, toggled)} :
        returned' = [fn |-> "calculate_srq20_score", toggled |-> toggled,
                     value |-> calculate_srq20_score(answers)]
    /\ UNCHANGED <<current_screening_tool, form, patients, screen,
                   screening_tools, request, response, clock,
                   files, db_initialized, sessions>>

ScorerNext == SubmitSRQ20 \/ SubmitSRQ29 \/ CallCalculateSrq20Score

ScorerSpec == ScorerInit /\ [][ScorerNext]_vars

(***************************************************************************)
(* The four pages of the workflow on an empty patient store: Look          *)
(* (pages/1), Listen (pages/2), Screening (pages/3) and Link (pages/4),    *)
(* one submission at a time.  A page that cannot build its selection       *)
(* list ends its run before the form is handled.                           *)
(***************************************************************************)
\* the forms a counselor fills on the Screening page
WorkflowForms(tool) ==
    CASE tool = "SRQ-20" -> {SrqForm(20, {}), SrqForm(20, 1..8)}
      [] tool = "SRQ-29 WHO" -> {SrqForm(29, {}), SrqForm(29, {21})}
      [] tool = "DASS-42" ->
            {DassForm(<<0, 0, 0>>, "front"), DassForm(<<14, 0, 0>>, "front")}

WorkflowInit ==
    /\ current_screening_tool = "SRQ-20"
    /\ form = SrqForm(20, {})
    /\ patients = [id \in PatientIds |-> NoPatient]
    /\ screen = [tool |-> "none"]
    /\ screening_tools = import_built_in_tools
    /\ request = [sent |-> FALSE]
    /\ response = [status |-> "none"]
    /\ returned = [fn |-> "none"]
    /\ files = [id \in PatientIds |-> NoPatient]
    /\ db_initialized = TRUE
    /\ sessions = <<>>
    /\ clock = 0

\* "Save Assessment" of the Look page, for "New Patient" or
\* for a patient of the sidebar
SubmitLook ==
    /\ Listable(get_patients)
    /\ \E current_patient_id \in {NewPatient} \cup {p["id"] : p \in get_patients} :
       \E uuid4 \in IF current_patient_id = NewPatient
                    THEN {id \in PatientIds : ~IsPatient(patients[id])}
                    ELSE {current_patient_id} :
       \E appearance \in {"Well-groomed", "Disheveled"} :
        /\ patients' = create_or_update_patient(current_patient_id, uuid4,
                            look_patient_data("Ana", appearance))
        /\ screen' = [tool |-> "none", page |-> "look",
                      patient_id |-> uuid4]
    /\ UNCHANGED <<current_screening_tool, form, screening_tools, request,
                   response, returned, clock,
                   files, db_initialized, sessions>>

\* "Save Listening Assessment" of the Listening page
SubmitListening ==
    /\ Listable(look_completed_patients)
    /\ \E p \in look_completed_patients :
       \E suicide_risk \in {"None indicated", "Recent attempt"} :
       \E harm_risk \in {"None indicated", "Moderate"} :
        /\ patients' = update_patient_listening_data(p["id"],
                            listening_data("insomnia", suicide_risk, harm_risk))
        /\ screen' = [tool |-> "none", page |-> "listen",
                      patient_id |-> p["id"]]
    /\ UNCHANGED <<current_screening_tool, form, screening_tools, request,
                   response, returned, clock,
                   files, db_initialized, sessions>>

\* the counselor picks an instrument on the Screening page and fills its
\* form: the run shows no result
FillScreeningForm ==
    /\ Listable(listen_completed_patients)
    /\ listen_completed_patients # {}
    /\ \E tool \in {"SRQ-20", "SRQ-29 WHO", "DASS-42"} :
       \E answers \in WorkflowForms(tool) :
        /\ <<tool, answers>> # <<current_screening_tool, form>>
        /\ current_screening_tool' = tool
        /\ form' = answers
    /\ screen' = [tool |-> "none", page |-> "screening"]
    /\ UNCHANGED <<patients, screening_tools, request, response, returned,
                   clock, files, db_initialized, sessions>>

\* "Save Referral Information" of the Referral page
SubmitReferral ==
    /\ Listable(screening_completed_patients)
    /\ \E p \in screening_completed_patients :
       \E referral_needed \in BOOLEAN :
        /\ patients' = update_patient_referral_data(p["id"],
                            referral_form_data(referral_needed, "follow up"))
        /\ screen' = [tool |-> "none", page |-> "referral",
                      patient_id |-> p["id"]]
    /\ UNCHANGED <<current_screening_tool, form, screening_tools, request,
                   response, returned, clock,
                   files, db_initialized, sessions>>

WorkflowNext ==
    \/ SubmitLook
    \/ SubmitListening
    \/ FillScreeningForm
    \/ SubmitSRQ20
    \/ SubmitSRQ29
    \/ SubmitDASS42
    \/ SubmitReferral

WorkflowSpec == WorkflowInit /\ [][WorkflowNext]_vars

(***************************************************************************)
(* The banding chains of the call sites, each applied to a total: the      *)
(* first call fixes the scale and the total, the calls of the other sites  *)
(* band the same total.  returned.labels holds the label of each site.     *)
(***************************************************************************)
BandInputs ==
    {<<"SRQ-20", t>> : t \in 0..20}
    \cup {<<scale, t>> : scale \in {"Depression", "Anxiety", "Stress"},
                         t \in 0..42}

BandInit ==
    /\ current_screening_tool = "SRQ-20"
    /\ form = SrqForm(20, {})
    /\ patients = [id \in PatientIds |-> NoPatient]
    /\ screen = [tool |-> "none"]
    /\ screening_tools = import_built_in_tools
    /\ request = [sent |-> FALSE]
    /\ response = [status |-> "none"]
    /\ returned = [fn |-> "none"]
    /\ files = [id \in PatientIds |-> NoPatient]
    /\ db_initialized = TRUE
    /\ sessions = <<>>
    /\ clock = 0

\* the site's chain applied to an input not banded at this site yet
BandAt(site, input, label) ==
    /\ \/ returned.fn = "none"
       \/ /\ returned.fn = "band"
          /\ returned.input = input
          /\ site \notin DOMAIN returned.labels
    /\ returned' = [fn |-> "band", input |-> input,
                    labels |-> DictUpdate(
                        IF returned.fn = "none" THEN <<>> ELSE returned.labels,
                        site :> label)]
    /\ UNCHANGED <<current_screening_tool, form, patients, screen,
                   screening_tools, request, response, files,
                   db_initialized, sessions, clock>>

BandScreeningPage ==
    \E input \in BandInputs :
        BandAt("screening", input,
            CASE input[1] = "SRQ-20" -> srq20_message(input[2])
              [] input[1] = "Depression" -> depression_severity(input[2])
              [] input[1] = "Anxiety" -> anxiety_severity(input[2])
              [] input[1] = "Stress" -> stress_severity(input[2]))

BandEndpoint ==
    \E input \in BandInputs :
        BandAt("endpoint", input,
            CASE input[1] = "SRQ-20" -> get_srq20_interpretation(input[2])
              [] input[1] = "Depression" ->
                    get_dass42_interpretation([depression |-> input[2]]).depression
              [] input[1] = "Anxiety" ->
                    get_dass42_interpretation([anxiety |-> input[2]]).anxiety
              [] input[1] = "Stress" ->
                    get_dass42_interpretation([stress |-> input[2]]).stress)

BandReferralPage ==
    \E input \in BandInputs :
        BandAt("referral", input,
            CASE input[1] = "SRQ-20" -> referral_srq20_interpretation(input[2])
              [] input[1] = "Depression" -> referral_depression_label(input[2])
              [] input[1] = "Anxiety" -> referral_anxiety_label(input[2])
              [] input[1] = "Stress" -> referral_stress_label(input[2]))

BandReportsPage ==
    \E input \in {i \in BandInputs : i[1] = "SRQ-20"} :
        BandAt("reports", input, reports_srq_interpretation(input[2]))

BandNext ==
    BandScreeningPage \/ BandEndpoint \/ BandReferralPage \/ BandReportsPage

BandSpec == BandInit /\ [][BandNext]_vars

(***************************************************************************)
(* Two browser sessions on one listened patient: one saves a listening     *)
(* assessment (pages/2), the other an SRQ-20 screening (pages/3).  Each    *)
(* handler reads the record with get_patient, merges its fields into its   *)
(* own copy and writes the copy back with save_patient; nothing orders     *)
(* the reads and writes of the two sessions.                               *)
(***************************************************************************)
\* the SRQ-20 forms of the screening session
ConcurrentForms == {SrqForm(20, 1..k) : k \in 0..20}

ConcurrentInit ==
    /\ current_screening_tool = "SRQ-20"
    /\ form = SrqForm(20, {})
    /\ patients = [id \in PatientIds |-> ListenedPatient(id)]
    /\ screen = [tool |-> "none"]
    /\ screening_tools = import_built_in_tools
    /\ request = [sent |-> FALSE]
    /\ response = [status |-> "none"]
    /\ returned = [fn |-> "none"]
    /\ files = [id \in PatientIds |-> NoPatient]
    /\ db_initialized = TRUE
    /\ sessions = [s \in {"listening", "screening"} |-> [pc |-> "form"]]
    /\ clock = 0

\* update_patient_listening_data up to existing_data = get_patient(..)
ListeningGetPatient ==
    /\ sessions["listening"].pc = "form"
    /\ \E p \in look_completed_patients :
       \E suicide_risk \in {"None indicated", "Recent attempt"} :
       \E harm_risk \in {"None indicated", "Moderate"} :
        sessions' = [sessions EXCEPT !["listening"] =
            [pc |-> "read", patient_id |-> p["id"],
             patient_data |-> listening_data("insomnia", suicide_risk, harm_risk),
             existing_data |-> get_patient(p["id"])]]
    /\ UNCHANGED <<current_screening_tool, form, patients, screen,
                   screening_tools, request, response, returned, files,
                   db_initialized, clock>>

\* update_patient_listening_data from existing_data.update(..) on
ListeningSavePatient ==
    /\ sessions["listening"].pc = "read"
    /\ LET own == sessions["listening"]
       IN IF IsPatient(own.existing_data)
          THEN patients' = save_patient(own.patient_id,
                    DictUpdate(DictUpdate(own.existing_data, own.patient_data),
                        [last_updated |-> clock,
                         listen_complete |-> TRUE,
                         assessment_step |-> "listen"]))
          ELSE patients' = patients
    /\ sessions' = [sessions EXCEPT !["listening"].pc = "saved"]
    /\ UNCHANGED <<current_screening_tool, form, screen, screening_tools,
                   request, response, returned, files, db_initialized, clock>>

\* "Calculate SRQ-20 Score" up to existing_data = get_patient(..) of
\* update_patient_screening_data
ScreeningGetPatient ==
    /\ sessions["screening"].pc = "form"
    /\ current_screening_tool = "SRQ-20"
    /\ \E p \in listen_completed_patients :
       \E srq_answers \in ConcurrentForms :
       \E score \in {srq20_inline_score(srq_answers)} :
        /\ form' = srq_answers
        /\ sessions' = [sessions EXCEPT !["screening"] =
                [pc |-> "read", patient_id |-> p["id"],
                 patient_data |->
                    [srq20_score |-> score,
                     srq_answers |-> srq_answers,
                     srq20_complete |-> TRUE,
                     referral_needed |-> srq20_referral_needed(score)],
                 existing_data |-> get_patient(p["id"])]]
    /\ UNCHANGED <<current_screening_tool, patients, screen, screening_tools,
                   request, response, returned, files, db_initialized, clock>>

\* update_patient_screening_data from existing_data.update(..) on, and the
\* result the page shows
ScreeningSavePatient ==
    /\ sessions["screening"].pc = "read"
    /\ LET own == sessions["screening"]
       IN /\ IF IsPatient(own.existing_data)
             THEN patients' = save_patient(own.patient_id,
                    DictUpdate(DictUpdate(own.existing_data, own.patient_data),
                        [last_updated |-> clock,
                         screening_complete |-> TRUE,
                         assessment_step |-> "screening"]))
             ELSE patients' = patients
          /\ screen' = [tool |-> "SRQ-20", patient_id |-> own.patient_id,
                        score |-> own.patient_data.srq20_score,
                        message |-> srq20_message(own.patient_data.srq20_score),
                        referral_button |-> own.patient_data.srq20_score >= 8]
    /\ sessions' = [sessions EXCEPT !["screening"].pc = "saved"]
    /\ UNCHANGED <<current_screening_tool, form, screening_tools, request,
                   response, returned, files, db_initialized, clock>>

ConcurrentNext ==
    \/ ListeningGetPatient
    \/ ListeningSavePatient
    \/ ScreeningGetPatient
    \/ ScreeningSavePatient

ConcurrentSpec == ConcurrentInit /\ [][ConcurrentNext]_vars

(***************************************************************************)
(* utils/database.py: save_patient and get_patient on the patients table   *)
(* and the patient_data files, the database reachable or failing at each   *)
(* call.  returned holds the last call and its result.                     *)
(***************************************************************************)
\* the records a caller saves
StorageRecords(patient_id) ==
    {[id |-> patient_id, name |-> name, age |-> age, look_complete |-> TRUE] :
        name \in {"Ana", "Budi"}, age \in {25, 40, 60}}

StorageInit ==
    /\ current_screening_tool = "SRQ-20"
    /\ form = SrqForm(20, {})
    /\ patients = [id \in PatientIds |-> NoPatient]
    /\ screen = [tool |-> "none"]
    /\ screening_tools = import_built_in_tools
    /\ request = [sent |-> FALSE]
    /\ response = [status |-> "none"]
    /\ returned = [fn |-> "none"]
    /\ files = [id \in PatientIds |-> NoPatient]
    /\ db_initialized \in BOOLEAN
    /\ sessions = <<>>
    /\ clock = 0

\* save_patient(patient_id, patient_data)
CallSavePatient ==
    /\ \E patient_id \in PatientIds :
       \E patient_data \in StorageRecords(patient_id) :
       \E db_up \in BOOLEAN :
        /\ IF use_database /\ db_up
           THEN /\ patients' = save_patient(patient_id, patient_data)
                /\ files' = files
           ELSE /\ files' = save_patient_to_file(patient_id, patient_data)
                /\ patients' = patients
        /\ returned' = [fn |-> "save_patient", patient_id |-> patient_id,
                        patient_data |-> patient_data, db_up |-> db_up,
                        result |-> patient_id]
    /\ UNCHANGED <<current_screening_tool, form, screen, screening_tools,
                   request, response, db_initialized, sessions, clock>>

\* get_patient(patient_id)
CallGetPatient ==
    /\ \E patient_id \in PatientIds :
       \E db_up \in BOOLEAN :
        returned' = [fn |-> "get_patient", patient_id |-> patient_id,
                     db_up |-> db_up,
                     result |-> get_patient_from_storage(patient_id, db_up)]
    /\ UNCHANGED <<current_screening_tool, form, patients, screen,
                   screening_tools, request, response, files,
                   db_initialized, sessions, clock>>

StorageNext == CallSavePatient \/ CallGetPatient

StorageSpec == StorageInit /\ [][StorageNext]_vars

(***************************************************************************)
(* pages/9_Screening_Tools_Management.py: a built-in tool is opened in     *)
(* the Edit form and saved with its texts as loaded; clients post answers  *)
(* to the scoring endpoint before and after.                               *)
(***************************************************************************)
ToolEditInit ==
    /\ current_screening_tool \in {"SRQ-20", "SRQ-29 WHO", "DASS-42"}
    /\ form \in ClientForms(current_screening_tool)
    /\ patients = [id \in PatientIds |-> ListenedPatient(id)]
    /\ screen = [tool |-> "none"]
    /\ screening_tools = import_built_in_tools
    /\ request = [sent |-> FALSE]
    /\ response = [status |-> "none"]
    /\ returned = [fn |-> "none"]
    /\ files = [id \in PatientIds |-> NoPatient]
    /\ db_initialized = TRUE
    /\ sessions = <<>>
    /\ clock = 0

\* "Update Screening Tool" with the form's fields left as loaded
EditScreeningTool ==
    /\ \E selected_id \in 1..Len(screening_tools) :
        LET selected_tool == screening_tools[selected_id]
            questions_text == edit_questions_text(selected_tool.questions)
            tool_data == [name |-> selected_tool.name,
                          questions |-> edit_parse_questions(questions_text)]
        IN /\ screening_tools' = save_screening_tool_update(tool_data, selected_id)
           /\ returned' = [fn |-> "save_screening_tool", tool_id |-> selected_id,
                           result |-> selected_id]
    /\ UNCHANGED <<current_screening_tool, form, patients, screen, request,
                   response, files, db_initialized, sessions, clock>>

ToolEditNext == EditScreeningTool \/ ApiPost

ToolEditSpec == ToolEditInit /\ [][ToolEditNext]_vars

(***************************************************************************)
(* Properties                                                              *)
(***************************************************************************)
\* the number of endorsed items lo..hi of the SRQ form
Endorsed(lo, hi) == Cardinality({i \in lo..hi : form[SrqKey(i)]})

\* the record of the patient the page last stored a screening for
Stored == patients[screen.patient_id]

\* C1: after an SRQ-20 submission the patient's stored referral_needed is
\* true exactly when at least 8 of the 20 items are endorsed.
C1_Srq20ReferralRule ==
    screen.tool = "SRQ-20" =>
        /\ Stored.referral_needed = (Endorsed(1, 20) >= 8)
        /\ Stored.srq20_score = Endorsed(1, 20)

C1_Witness ==
    /\ screen.tool = "SRQ-20"
    /\ Endorsed(1, 20) = 8
    /\ Stored.referral_needed

C3_Dass42ReferralRule ==
    screen.tool = "DASS-42" =>
        /\ Stored.referral_needed =
              (\E sev \in {Stored.dass_depression_severity,
                           Stored.dass_anxiety_severity,
                           Stored.dass_stress_severity} :
                  sev \in {"Moderate", "Severe", "Extremely Severe"})
        /\ Stored.referral_needed =
              (\/ Stored.dass_depression_score >= 14
               \/ Stored.dass_anxiety_score >= 10
               \/ Stored.dass_stress_score >= 19)

C3_Witness ==
    /\ screen.tool = "DASS-42"
    /\ Stored.dass_depression_score = 5
    /\ Stored.dass_anxiety_score = 5
    /\ Stored.dass_stress_score = 20
    /\ Stored.dass_depression_severity = "Normal"
    /\ Stored.dass_anxiety_severity = "Normal"
    /\ Stored.dass_stress_severity = "Moderate"
    /\ Stored.referral_needed

\* the endpoint answered the scoring request for the tool with this id
Scored(tool_id) ==
    /\ response.status = "success"
    /\ response.data.tool_id = tool_id

\* the four SRQ bands
SrqBand(t, label) ==
    /\ label = "No significant mental distress" <=> t <= 4
    /\ label = "Mild mental distress" <=> (5 <= t /\ t <= 7)
    /\ label = "Moderate mental distress" <=> (8 <= t /\ t <= 10)
    /\ label = "Severe mental distress" <=> t >= 11

\* five DASS bands with the upper ends n, m, o, s of Normal .. Severe
DassBand(t, label, n, m, o, s) ==
    /\ label = "Normal" <=> t <= n
    /\ label = "Mild" <=> (n < t /\ t <= m)
    /\ label = "Moderate" <=> (m < t /\ t <= o)
    /\ label = "Severe" <=> (o < t /\ t <= s)
    /\ label = "Extremely Severe" <=> t > s

\* C4: get_srq20_interpretation bands every SRQ-20 total 0..20 as 0-4 No
\* significant, 5-7 Mild, 8-10 Moderate, 11+ Severe mental distress, and
\* get_srq29_interpretation bands the anxiety_depression subscale the same.
C4_SrqBanding ==
    /\ Scored(1) =>
        /\ response.data.total_score = Endorsed(1, 20)
        /\ SrqBand(response.data.total_score, response.data.interpretation)
    /\ Scored(2) =>
        /\ response.data.subscale_scores.anxiety_depression = Endorsed(1, 20)
        /\ SrqBand(response.data.subscale_scores.anxiety_depression,
                   response.data.interpretations.anxiety_depression)

C4_Witness ==
    /\ Scored(1)
    /\ Endorsed(1, 20) = 8
    /\ response.data.total_score = 8
    /\ response.data.interpretation = "Moderate mental distress"

\* C5: every DASS-42 depression total 0..42 is banded Normal 0-9, Mild
\* 10-13, Moderate 14-20, Severe 21-27, Extremely Severe 28+, by the
\* endpoint and by the Screening page.
C5_DepressionBanding ==
    /\ Scored(3) =>
        DassBand(response.data.subscale_scores.depression,
                 response.data.interpretations.depression, 9, 13, 20, 27)
    /\ screen.tool = "DASS-42" =>
        DassBand(Stored.dass_depression_score,
                 Stored.dass_depression_severity, 9, 13, 20, 27)

C5_Witness ==
    /\ Scored(3)
    /\ screen.tool = "DASS-42"
    /\ response.data.subscale_scores.depression = 28
    /\ response.data.interpretations.depression = "Extremely Severe"
    /\ Stored.dass_depression_score = 28
    /\ Stored.dass_depression_severity = "Extremely Severe"

\* C6: anxiety totals are banded on 0-7 / 8-9 / 10-14 / 15-19 / 20+ and
\* stress totals on 0-14 / 15-18 / 19-25 / 26-33 / 34+, by the endpoint and
\* by the Screening page.
C6_AnxietyStressBanding ==
    /\ Scored(3) =>
        /\ DassBand(response.data.subscale_scores.anxiety,
                    response.data.interpretations.anxiety, 7, 9, 14, 19)
        /\ DassBand(response.data.subscale_scores.stress,
                    response.data.interpretations.stress, 14, 18, 25, 33)
    /\ screen.tool = "DASS-42" =>
        /\ DassBand(Stored.dass_anxiety_score,
                    Stored.dass_anxiety_severity, 7, 9, 14, 19)
        /\ DassBand(Stored.dass_stress_score,
                    Stored.dass_stress_severity, 14, 18, 25, 33)

\* the same total, 13, is Moderate anxiety and Normal stress
C6_Witness ==
    /\ Scored(3)
    /\ screen.tool = "DASS-42"
    /\ Stored.dass_anxiety_score = 13
    /\ Stored.dass_stress_score = 13
    /\ Stored.dass_anxiety_severity = "Moderate"
    /\ Stored.dass_stress_severity = "Normal"
    /\ response.data.interpretations.anxiety = "Moderate"
    /\ response.data.interpretations.stress = "Normal"

\* C7: get_srq29_interpretation labels the psychotic, epileptic and alcohol
\* subscales by their own cut-offs (psychotic 0 / 1+, epileptic 0 / 1,
\* alcohol 0 / 1 / 2+), under the subscale names calculate_srq29_subscales
\* produced (the endpoint names the epileptic subscale "epilepsy").
C7_Srq29OtherLabels ==
    (Scored(2) /\ "error" \notin DOMAIN response.data.subscale_scores) =>
        LET scores == response.data.subscale_scores
            labels == response.data.interpretations
        IN /\ DOMAIN labels = DOMAIN scores
           /\ labels.psychotic = (IF scores.psychotic = 0
                THEN "No psychotic symptoms indicated"
                ELSE "Psychotic symptoms indicated - requires specialist assessment")
           /\ labels.epilepsy = (IF scores.epilepsy = 0
                THEN "No epileptic seizures indicated"
                ELSE "Epileptic seizures indicated - requires medical assessment")
           /\ scores.epilepsy = 1 <=> form[SrqKey(25)]
           /\ labels.alcohol = (IF scores.alcohol = 0
                THEN "No problematic alcohol use indicated"
                ELSE IF scores.alcohol = 1
                THEN "Possible problematic alcohol use"
                ELSE "Problematic alcohol use indicated - requires specialist assessment")

C7_Witness ==
    /\ Scored(2)
    /\ form[SrqKey(25)]
    /\ response.data.subscale_scores.alcohol = 1
    /\ response.data.interpretations.epilepsy =
          "Epileptic seizures indicated - requires medical assessment"
    /\ response.data.interpretations.alcohol = "Possible problematic alcohol use"

\* C8: for a 29-item answer set anxiety_depression counts the endorsed
\* items 1-20, psychotic items 21-24, epileptic is 1 iff item 25 is
\* endorsed and alcohol counts items 26-29, in the dict-keyed scorer of the
\* page and in the list-indexed scorer of the endpoint alike.
C8_Srq29Partition ==
    /\ screen.tool = "SRQ-29 WHO" =>
        /\ Stored.srq29_anxiety_depression = Endorsed(1, 20)
        /\ Stored.srq29_psychotic = Endorsed(21, 24)
        /\ Stored.srq29_epileptic = Endorsed(25, 25)
        /\ Stored.srq29_alcohol = Endorsed(26, 29)
    /\ Scored(2) =>
        /\ response.data.subscale_scores.anxiety_depression = Endorsed(1, 20)
        /\ response.data.subscale_scores.psychotic = Endorsed(21, 24)
        /\ response.data.subscale_scores.epilepsy = Endorsed(25, 25)
        /\ response.data.subscale_scores.alcohol = Endorsed(26, 29)
    /\ (screen.tool = "SRQ-29 WHO" /\ Scored(2)) =>
        <<Stored.srq29_anxiety_depression, Stored.srq29_psychotic,
          Stored.srq29_epileptic, Stored.srq29_alcohol>>
        = <<response.data.subscale_scores.anxiety_depression,
            response.data.subscale_scores.psychotic,
            response.data.subscale_scores.epilepsy,
            response.data.subscale_scores.alcohol>>

\* the items at both ends of every range are endorsed
C8_Witness ==
    /\ screen.tool = "SRQ-29 WHO"
    /\ Scored(2)
    /\ \A i \in {20, 21, 24, 25, 26, 29} : form[SrqKey(i)]
    /\ ~form[SrqKey(1)]
    /\ Stored.srq29_psychotic = 4
    /\ response.data.subscale_scores.alcohol = 4

\* the sum of the DASS-42 answers 1..n of the form
RECURSIVE SumAnswers(_)
SumAnswers(n) == IF n = 0 THEN 0 ELSE form[DassKey(n)] + SumAnswers(n - 1)

\* C9: the four SRQ-29 subscales add up to calculate_srq29_score, and the
\* three DASS-42 subscale totals add up to the sum of all 42 answers.
C9_PartitionComplete ==
    /\ screen.tool = "SRQ-29 WHO" =>
        /\ Stored.srq29_anxiety_depression + Stored.srq29_psychotic
             + Stored.srq29_epileptic + Stored.srq29_alcohol
           = Stored.srq29_score
        /\ Stored.srq29_score = calculate_srq29_score(form)
    /\ screen.tool = "DASS-42" =>
        Stored.dass_depression_score + Stored.dass_anxiety_score
            + Stored.dass_stress_score = SumAnswers(42)

C9_Witness ==
    /\ screen.tool = "DASS-42"
    /\ form[DassKey(14)] = 3
    /\ form[DassKey(15)] = 3
    /\ form[DassKey(28)] = 3
    /\ form[DassKey(29)] = 3
    /\ Stored.dass_stress_score = 20
    /\ SumAnswers(42) = 104

\* C10: with the built-in question bank the endpoint's totals by category
\* label equal calculate_dass42_scores' totals by index range, for the same
\* 42 answers.
C10_LabelledEqualsPositional ==
    Scored(3) =>
        /\ "subscale_scores" \in DOMAIN response.data
        /\ <<response.data.subscale_scores.depression,
             response.data.subscale_scores.anxiety,
             response.data.subscale_scores.stress>>
           = calculate_dass42_scores(form)

C10_Witness ==
    /\ Scored(3)
    /\ response.data.subscale_scores.depression = 13
    /\ response.data.subscale_scores.anxiety = 9
    /\ response.data.subscale_scores.stress = 18
    /\ form[DassKey(15)] = 3
    /\ form[DassKey(42)] = 0

\* C11: an SRQ-29 answer set with exactly one endorsed item k gives the
\* subscale that holds k the total 1 and the three others 0, and stores
\* referral_needed true exactly when k is one of 21..25.
C11_SubscaleIsolation ==
    (screen.tool = "SRQ-29 WHO" /\ Endorsed(1, 29) = 1) =>
        LET k == CHOOSE i \in 1..29 : form[SrqKey(i)]
            One(b) == IF b THEN 1 ELSE 0
        IN /\ Stored.srq29_anxiety_depression = One(k \in 1..20)
           /\ Stored.srq29_psychotic = One(k \in 21..24)
           /\ Stored.srq29_epileptic = One(k = 25)
           /\ Stored.srq29_alcohol = One(k \in 26..29)
           /\ screen.subscale_scores =
                 [anxiety_depression |-> One(k \in 1..20),
                  psychotic |-> One(k \in 21..24),
                  epileptic |-> One(k = 25),
                  alcohol |-> One(k \in 26..29)]
           /\ Stored.referral_needed = (k \in 21..25)

\* item 25 alone: only the epileptic subscale counts it, and it refers
C11_Witness ==
    /\ screen.tool = "SRQ-29 WHO"
    /\ Endorsed(1, 29) = 1
    /\ form[SrqKey(25)]
    /\ Stored.srq29_epileptic = 1
    /\ Stored.srq29_psychotic = 0
    /\ Stored.referral_needed

\* C12: the SRQ-20 total lies in 0..20, the SRQ-29 total in 0..29 with its
\* subscales in 0..20, 0..4, 0..1 and 0..4, and every DASS-42 subscale in
\* 0..42; the all-minimum answer set gives the lower end and the
\* all-maximum answer set the upper end of every range.
C12_ScoreRanges ==
    /\ screen.tool = "SRQ-20" =>
        /\ Stored.srq20_score \in 0..20
        /\ (\A i \in 1..20 : ~form[SrqKey(i)]) => Stored.srq20_score = 0
        /\ (\A i \in 1..20 : form[SrqKey(i)]) => Stored.srq20_score = 20
    /\ screen.tool = "SRQ-29 WHO" =>
        LET scores == <<Stored.srq29_score, Stored.srq29_anxiety_depression,
                        Stored.srq29_psychotic, Stored.srq29_epileptic,
                        Stored.srq29_alcohol>>
        IN /\ scores \in (0..29) \X (0..20) \X (0..4) \X (0..1) \X (0..4)
           /\ (\A i \in 1..29 : ~form[SrqKey(i)]) => scores = <<0, 0, 0, 0, 0>>
           /\ (\A i \in 1..29 : form[SrqKey(i)]) => scores = <<29, 20, 4, 1, 4>>
    /\ screen.tool = "DASS-42" =>
        LET scores == <<Stored.dass_depression_score, Stored.dass_anxiety_score,
                        Stored.dass_stress_score>>
        IN /\ scores \in (0..42) \X (0..42) \X (0..42)
           /\ (\A i \in 1..42 : form[DassKey(i)] = 0) => scores = <<0, 0, 0>>
           /\ (\A i \in 1..42 : form[DassKey(i)] = 3) => scores = <<42, 42, 42>>

\* every DASS-42 item at 3: the three totals are at their upper end
C12_Witness ==
    /\ screen.tool = "DASS-42"
    /\ \A i \in 1..42 : form[DassKey(i)] = 3
    /\ Stored.dass_depression_score = 42
    /\ Stored.dass_anxiety_score = 42
    /\ Stored.dass_stress_score = 42

\* the item count of the built-in instrument with this id
ItemCount(tool_id) == Len(import_built_in_tools[tool_id].questions)

\* C13: a scoring request for SRQ-20, SRQ-29 or DASS-42 whose answer list
\* is shorter or longer than the instrument's item count (20, 29, 42) is
\* answered with an error, never with a score.
C13_CountMismatchRejected ==
    (/\ request.sent
     /\ request.tool_id \in 1..3
     /\ Len(request.answers) # ItemCount(request.tool_id))
        => response.status = "error"

\* C14: the endpoint answers with a success result only for the three
\* instruments SRQ-20, SRQ-29 and DASS-42; a request for any other tool is
\* answered with an error.
C14_UnknownInstrumentRejected ==
    response.status = "success" =>
        response.data.tool_name \in
            {Srq20ToolName, Srq29ToolName, Dass42ToolName}

\* C15: a request for SRQ-29 with fewer than 29 answers is answered with
\* an error that carries no total score, no subscale scores and no labels.
C15_NoPartialResult ==
    (/\ request.sent
     /\ request.tool_id = ToolId("SRQ-29 WHO")
     /\ Len(request.answers) < 29)
        => /\ response.status = "error"
           /\ "data" \notin DOMAIN response

\* what the page rendered and stored for its last submission, the time of
\* the save left out
ScoringResult ==
    IF screen.tool = "none" THEN <<>>
    ELSE <<screen, [k \in (DOMAIN Stored) \ {"last_updated"} |-> Stored[k]]>>

C17_ReferralFormulasDiffer ==
    screen.tool = "SRQ-29 WHO" =>
        LET differ == Stored.referral_needed # screen.referral_needed
        IN /\ differ <=>
                /\ Endorsed(1, 20) \in 8..9
                /\ Endorsed(21, 25) = 0
                /\ Endorsed(26, 29) <= 1
                /\ Endorsed(1, 29) < 10
           /\ differ => (~Stored.referral_needed /\ screen.referral_needed)

\* eight anxiety/depression items and nothing else
C17_Witness ==
    /\ screen.tool = "SRQ-29 WHO"
    /\ Endorsed(1, 20) = 8
    /\ Endorsed(21, 29) = 0
    /\ ~Stored.referral_needed
    /\ screen.referral_needed

\* C18: whenever the stored SRQ-29 referral_needed is true, the decision
\* behind the rendered warning is true as well.
C18_PersistedImpliesDisplayed ==
    (screen.tool = "SRQ-29 WHO" /\ Stored.referral_needed)
        => screen.referral_needed

\* stored through the total alone: ten anxiety/depression items
C18_Witness ==
    /\ screen.tool = "SRQ-29 WHO"
    /\ Endorsed(1, 20) = 10
    /\ Endorsed(21, 29) = 0
    /\ Stored.srq29_score = 10
    /\ Stored.referral_needed
    /\ screen.referral_needed

\* C19: under the rendered SRQ-29 warning the guidance line of a subscale
\* is shown exactly when that subscale's trigger holds (anxiety_depression
\* >= 8, psychotic >= 1, epileptic = 1, alcohol >= 2); a rendered warning
\* has at least one line, and with no trigger there is neither warning nor
\* line.
C19_GuidanceKeyedToTriggers ==
    screen.tool = "SRQ-29 WHO" =>
        LET trigger == [g \in {"Anxiety & Depression", "Psychotic Symptoms",
                               "Epileptic Seizures", "Alcohol Issues"} |->
                CASE g = "Anxiety & Depression" -> Endorsed(1, 20) >= 8
                  [] g = "Psychotic Symptoms" -> Endorsed(21, 24) >= 1
                  [] g = "Epileptic Seizures" -> Endorsed(25, 25) = 1
                  [] g = "Alcohol Issues" -> Endorsed(26, 29) >= 2]
        IN /\ \A g \in DOMAIN trigger : g \in screen.guidance <=> trigger[g]
           /\ screen.guidance \subseteq DOMAIN trigger
           /\ screen.referral_needed => screen.guidance # {}
           /\ (\A g \in DOMAIN trigger : ~trigger[g])
                => (~screen.referral_needed /\ screen.guidance = {})

\* two triggers, two lines
C19_Witness ==
    /\ screen.tool = "SRQ-29 WHO"
    /\ Endorsed(1, 20) = 8
    /\ Endorsed(21, 25) = 0
    /\ Endorsed(26, 29) = 2
    /\ screen.referral_needed
    /\ screen.guidance = {"Anxiety & Depression", "Alcohol Issues"}

\* C20: calculate_srq20_score counts the endorsed items 1..20 only: on a
\* mapping over srq_1..srq_29 it returns the anxiety_depression subscale of
\* get_srq29_subscale_scores, also when one of items 21..29 is toggled, and
\* on a mapping over srq_1..srq_20 it returns the page's inline count.
C20_Srq20ScoreCountsItems1To20 ==
    returned.fn = "calculate_srq20_score" =>
        /\ returned.value = Endorsed(1, 20)
        /\ screen.tool = "SRQ-29 WHO" =>
                returned.value = Stored.srq29_anxiety_depression
        /\ screen.tool = "SRQ-20" =>
                (returned.toggled = 0 /\ returned.value = Stored.srq20_score)

\* called with item 25 toggled off, items 26..29 endorsed
C20_Witness ==
    /\ returned.fn = "calculate_srq20_score"
    /\ returned.toggled = 25
    /\ form[SrqKey(25)]
    /\ Endorsed(21, 29) = 5
    /\ screen.tool = "SRQ-29 WHO"
    /\ returned.value = 7
    /\ Stored.srq29_anxiety_depression = 7

\* the band a rendered label stands for: the Screening and the Reports page
\* end their SRQ messages with " indicated"
BandOf(label) ==
    CASE label = "No significant mental distress indicated"
            -> "No significant mental distress"
      [] label = "Mild mental distress indicated" -> "Mild mental distress"
      [] label = "Moderate mental distress indicated"
            -> "Moderate mental distress"
      [] label = "Severe mental distress indicated" -> "Severe mental distress"
      [] OTHER -> label

\* C21: every call site bands a total alike: for a Depression, Anxiety or
\* Stress total 0..42 the Screening page, get_dass42_interpretation and the
\* Referral page choose the same band, and for an SRQ-20 total 0..20 the
\* Screening, Referral and Reports pages choose the band of
\* get_srq20_interpretation.
C21_SameBandEverywhere ==
    returned.fn = "band" =>
        /\ \A a \in DOMAIN returned.labels, b \in DOMAIN returned.labels :
                BandOf(returned.labels[a]) = BandOf(returned.labels[b])
        /\ \A a \in DOMAIN returned.labels :
                IF returned.input[1] = "SRQ-20"
                THEN SrqBand(returned.input[2], BandOf(returned.labels[a]))
                ELSE BandOf(returned.labels[a]) \in
                        {"Normal", "Mild", "Moderate", "Severe",
                         "Extremely Severe"}

\* the SRQ-20 total 11 banded at all four sites
C21_Witness ==
    /\ returned.fn = "band"
    /\ returned.input = <<"SRQ-20", 11>>
    /\ DOMAIN returned.labels = {"screening", "endpoint", "referral", "reports"}
    /\ returned.labels["endpoint"] = "Severe mental distress"
    /\ returned.labels["reports"] = "Severe mental distress indicated"

\* C22: the stored referral_needed is the decision of the most recent
\* screening submission alone: after a submission of SRQ-20, SRQ-29 or
\* DASS-42 it follows that instrument's rule on the answers just submitted,
\* whatever the earlier submissions for the patient decided.
C22_LastWriterWins ==
    /\ screen.tool = "SRQ-20" =>
        Stored.referral_needed = (Endorsed(1, 20) >= 8)
    /\ screen.tool = "SRQ-29 WHO" =>
        Stored.referral_needed =
            (\/ Endorsed(1, 29) >= 10
             \/ Endorsed(21, 25) >= 1
             \/ Endorsed(26, 29) >= 2)
    /\ screen.tool = "DASS-42" =>
        Stored.referral_needed =
            (\/ SumAnswers(14) >= 14
             \/ SumAnswers(28) - SumAnswers(14) >= 10
             \/ SumAnswers(42) - SumAnswers(28) >= 19)

\* an SRQ-20 submission deciding against a referral after a DASS-42
\* submission that decided for one
C22_Witness ==
    /\ screen.tool = "SRQ-20"
    /\ Endorsed(1, 20) = 0
    /\ ~Stored.referral_needed
    /\ DictGet(Stored, "dass_complete", FALSE)
    /\ Stored.dass_depression_severity = "Moderate"

\* the stage flag of a stored record, false when the record lacks it
Flag(r, stage) == DictGet(r, stage, FALSE)

\* C23: in every stored patient record screening_complete implies
\* listen_complete, listen_complete implies look_complete, and
\* referral_complete implies screening_complete, after any sequence of
\* submissions on the Look, Listening, Screening and Referral pages.
C23_StageOrdering ==
    \A id \in DOMAIN patients :
        IsPatient(patients[id]) =>
            /\ Flag(patients[id], "screening_complete")
                    => Flag(patients[id], "listen_complete")
            /\ Flag(patients[id], "listen_complete")
                    => Flag(patients[id], "look_complete")
            /\ Flag(patients[id], "referral_complete")
                    => Flag(patients[id], "screening_complete")

\* a record that went through all four pages
C23_Witness ==
    \E id \in DOMAIN patients :
        /\ IsPatient(patients[id])
        /\ Flag(patients[id], "look_complete")
        /\ Flag(patients[id], "listen_complete")
        /\ Flag(patients[id], "screening_complete")
        /\ Flag(patients[id], "referral_complete")

\* C24: every stored patient record carries its own identifier: after any
\* sequence of Look saves (creating a patient, then editing it) the record
\* stored under a key has an 'id' field equal to that key.
C24_RecordCarriesId ==
    \A id \in DOMAIN patients :
        IsPatient(patients[id]) =>
            /\ "id" \in DOMAIN patients[id]
            /\ patients[id]["id"] = id

\* the step is a Look save for a patient the store already holds
LookEditStep ==
    /\ "page" \in DOMAIN screen'
    /\ screen'.page = "look"
    /\ IsPatient(patients[screen'.patient_id])

\* the fields of a record that the later pages wrote: all but the Look
\* form's fields, the identifier and the two time stamps
LaterFields(r) ==
    (DOMAIN r) \ (DOMAIN look_patient_data("", "")
                    \cup {"id", "created_at", "last_updated"})

\* C25: a Look save for an existing patient changes only the Look fields:
\* the stored listening data, screening answers and scores, referral_needed
\* and the flags listen_complete, screening_complete and referral_complete
\* are in the record after the save as they were before it.
C25_LookEditKeepsLaterStages ==
    [][LookEditStep =>
          \A k \in LaterFields(patients[screen'.patient_id]) :
              /\ k \in DOMAIN patients'[screen'.patient_id]
              /\ patients'[screen'.patient_id][k]
                    = patients[screen'.patient_id][k]]_vars

\* the stored record holds the fields a session submitted
Holds(r, data) ==
    \A k \in DOMAIN data : k \in DOMAIN r /\ r[k] = data[k]

\* C26: no lost update: when a listening and a screening submission for
\* the same patient interleave their get_patient, merge and save_patient
\* steps, the record stored after both saves contains the fields of both
\* submissions.
C26_NoLostUpdate ==
    (/\ sessions["listening"].pc = "saved"
     /\ sessions["screening"].pc = "saved"
     /\ sessions["listening"].patient_id = sessions["screening"].patient_id)
        => /\ Holds(patients[sessions["listening"].patient_id],
                    sessions["listening"].patient_data)
           /\ Holds(patients[sessions["screening"].patient_id],
                    sessions["screening"].patient_data)

\* C27: read your writes across the storage fallback: the get_patient(id)
\* that follows a save_patient(id, data) returns data, whether the
\* database was reachable or failing during either call.
C27_ReadYourWrites ==
    [][(/\ returned.fn = "save_patient"
        /\ returned'.fn = "get_patient"
        /\ returned'.patient_id = returned.patient_id)
            => returned'.result = returned.patient_data]_vars

\* C28: editing a stored tool without changing its question text is a
\* round trip: the saved questions list equals the loaded one (order,
\* text, type and the DASS-42 category of each item), and the endpoint
\* returns for DASS-42 answers the subscale totals it returned before the
\* edit.
C28_EditRoundTrip ==
    /\ \A tool_id \in DOMAIN import_built_in_tools :
        screening_tools[tool_id].questions
            = import_built_in_tools[tool_id].questions
    /\ Scored(3) =>
        response.data.subscale_scores
            = calculate_dass42_subscales(request.answers,
                                         import_built_in_tools[3].questions)

====
